---- MODULE Spec2Model ----
(***************************************************************************)
(* A model of micropsi_core/world/worldadapter.py: the dictionary based    *)
(* WorldAdapter (through its concrete subclass Default), the numpy based   *)
(* ArrayWorldAdapter (through a minimal concrete subclass and through      *)
(* DefaultArray), the calls an agent and a world make on them, and the     *)
(* world cycle update().                                                   *)
(*                                                                         *)
(* One adapter object is modelled.  Its fields are the fields of the       *)
(* record `adapter`; every method is an operator from the object (and the  *)
(* call's arguments) to a result record [ad, ret, exc]: the object after   *)
(* the call, the returned value and the exception that left the call       *)
(* ("none" when it returned).                                              *)
(*                                                                         *)
(* Channel names are strings in the code.  A name is modelled by the       *)
(* record [base, idx]: the string base, followed by the decimal numbers    *)
(* idx[1], idx[2], ... each after a '_'.  So "test" is Nm("test", <<>>)    *)
(* and "action_0_1" is Nm("action", <<0, 1>>).  Over the names of this     *)
(* model two such records are equal exactly when the strings are.          *)
(*                                                                         *)
(* A numpy array is modelled by [shape, data]: its shape and its elements  *)
(* in memory (C, row-major) order.  Floats are modelled by naturals.       *)
(***************************************************************************)
EXTENDS Integers, Sequences, FiniteSets, TLC

\* ------------------------------------------------------------------ bounds

\* the number of calls made on the adapter after its construction
MaxCalls == 3

\* the number of calls made on a TimeSeries world after its construction
MaxPlays == 4

\* the largest step a caller sets before it reads the state
MaxStep == 2

\* ------------------------------------------------------- python / numpy

\* Python's None, where an array is optional
None == [none |-> TRUE]

\* Python's None, where a shape is optional (no array has the empty shape
\* here)
NoShape == <<>>

Min(a, b) == IF a < b THEN a ELSE b

RECURSIVE Product(_)
\* functools.reduce(operator.mul, shape, 1)
Product(shape) ==
    IF shape = <<>> THEN 1 ELSE Head(shape) * Product(Tail(shape))

Zeros(n) == [i \in 1..n |-> 0]

RECURSIVE unravel_index(_, _)
\* np.unravel_index of one flat index k in an array of the given shape
\* (C order: the last axis varies fastest)
unravel_index(k, shape) ==
    IF shape = <<>> THEN <<>>
    ELSE LET inner == Product(Tail(shape))
         IN  <<k \div inner>> \o unravel_index(k % inner, Tail(shape))

RECURSIVE ravel_multi_index(_, _)
\* the flat (C order) offset of a multi-index in an array of the given shape
ravel_multi_index(idx, shape) ==
    IF shape = <<>> THEN 0
    ELSE Head(idx) * Product(Tail(shape))
         + ravel_multi_index(Tail(idx), Tail(shape))

\* a numpy array of the given shape whose C-order elements are data
NdArray(shape, data) == [shape |-> shape, data |-> data]

\* ndarray.size
Size(arr) == Product(arr.shape)

\* ndarray[multi-index]
At(arr, idx) == arr.data[ravel_multi_index(idx, arr.shape) + 1]

\* ndarray.flatten(): the elements visited in C order of the multi-indices
flatten(arr) == [k \in 1..Size(arr) |-> At(arr, unravel_index(k - 1, arr.shape))]

\* ndarray.reshape(shape) of a one-dimensional array holding data; numpy
\* refuses (ValueError) when the sizes differ, see CanReshape
reshape(data, shape) ==
    NdArray(shape, [k \in 1..Product(shape) |->
                       data[ravel_multi_index(unravel_index(k - 1, shape), shape) + 1]])

CanReshape(data, shape) == Product(shape) = Len(data)

\* sequence[start:stop] of Python and numpy: the bounds are clamped to the
\* length, indices are 0-based
Slice(seq, start, stop) ==
    LET lo == Min(start, Len(seq))
        hi == Min(stop, Len(seq))
    IN  IF hi <= lo THEN <<>> ELSE SubSeq(seq, lo + 1, hi)

\* the outcome of `if x:` for x None or a numpy array: None and the empty
\* array are false, an array of one element is as true as that element is
\* non-zero, and a larger array raises ValueError (its truth value is
\* ambiguous)
Truth(x) ==
    IF x = None THEN "false"
    ELSE IF Size(x) = 0 THEN "false"
    ELSE IF Size(x) = 1 THEN (IF x.data[1] # 0 THEN "true" ELSE "false")
    ELSE "ValueError"

\* list.index(x): the 0-based position of the first x, -1 standing for the
\* ValueError Python raises when there is none
ListIndex(seq, x) ==
    IF \E i \in 1..Len(seq) : seq[i] = x
    THEN (CHOOSE i \in 1..Len(seq) :
              seq[i] = x /\ \A j \in 1..(i - 1) : seq[j] # x) - 1
    ELSE -1

\* ------------------------------------------------------------------ names

Nm(base, idx) == [base |-> base, idx |-> idx]

\* '_'.join(parts) for parts = [basename, str(i0), str(i1), ...]
JoinName(basename, idx) == Nm(basename, idx)

\* ----------------------------------------------------------- python dict

EmptyDict == <<>>

\* d[k] = v
DictSet(d, k, v) == [x \in (DOMAIN d) \cup {k} |-> IF x = k THEN v ELSE d[x]]

\* dict((k, v) for k in keys)
DictOf(keys, v) == [x \in keys |-> v]

\* the strings of this model in increasing (Python str) order; no one is a
\* prefix of another
StrOrder ==
    <<"1", "2", "3", "action", "echo", "random", "static_off", "static_on", "test",
      "vision">>

StrRank(s) == CHOOSE i \in 1..Len(StrOrder) : StrOrder[i] = s

RECURSIVE SeqLess(_, _)
\* lexicographic order of two sequences of numbers
SeqLess(a, b) ==
    IF a = <<>> THEN b # <<>>
    ELSE IF b = <<>> THEN FALSE
    ELSE IF Head(a) # Head(b) THEN Head(a) < Head(b)
    ELSE SeqLess(Tail(a), Tail(b))

\* n < m for two names as Python compares the strings (indices are single
\* digits here, so a string and its extension compare as base and idx do)
NameLess(n, m) ==
    IF n.base # m.base THEN StrRank(n.base) < StrRank(m.base)
    ELSE SeqLess(n.idx, m.idx)

RECURSIVE sorted(_)
\* sorted(list(keys)) for a set of names
sorted(keys) ==
    IF keys = {} THEN <<>>
    ELSE LET least == CHOOSE n \in keys : \A m \in keys \ {n} : NameLess(n, m)
         IN  <<least>> \o sorted(keys \ {least})

\* ------------------------------------------------------------- result

\* a call that returned ret and left the object as ad
Returns(ad, ret) == [ad |-> ad, ret |-> ret, exc |-> "none"]

\* a call that raised exc, having left the object as ad
Raises(ad, exc) == [ad |-> ad, ret |-> None, exc |-> exc]

\* --------------------------------------------------------- WorldAdapter

\* WorldAdapter.__init__: the fields of a new adapter object.  The array
\* fields are those ArrayWorldAdapter.__init__ adds; they stay empty in a
\* dictionary based adapter, whose methods never read them.
WorldAdapter_init(kind) ==
    [kind |-> kind,
     datasources |-> EmptyDict,
     datatargets |-> EmptyDict,
     datatarget_feedback |-> EmptyDict,
     datasource_lock |-> "unlocked",
     datasource_names |-> <<>>,
     datatarget_names |-> <<>>,
     datasource_groups |-> EmptyDict,
     datatarget_groups |-> EmptyDict,
     datasource_values |-> <<>>,
     datatarget_values |-> <<>>,
     datatarget_feedback_values |-> <<>>]

\* ArrayWorldAdapter.__init__
ArrayWorldAdapter_init(kind) ==
    [WorldAdapter_init(kind) EXCEPT
        !.datasource_names = <<>>,
        !.datatarget_names = <<>>,
        !.datasource_groups = EmptyDict,
        !.datatarget_groups = EmptyDict,
        !.datasource_values = Zeros(0),
        !.datatarget_values = Zeros(0),
        !.datatarget_feedback_values = Zeros(0)]

IsArray(ad) == ad.kind \in {"ArrayWorldAdapter", "DefaultArray"}

\* --------------------------------------- ArrayWorldAdapter: registration

\* ArrayWorldAdapter.add_datasource
add_datasource(ad, name, initial_value) ==
    LET names == Append(ad.datasource_names, name)
    IN  Returns([ad EXCEPT
                    !.datasource_names = names,
                    !.datasource_values = ad.datasource_values \o <<initial_value>>],
                Len(names) - 1)

\* ArrayWorldAdapter.add_datatarget
add_datatarget(ad, name, initial_value) ==
    LET names == Append(ad.datatarget_names, name)
    IN  Returns([ad EXCEPT
                    !.datatarget_names = names,
                    !.datatarget_values = ad.datatarget_values \o <<initial_value>>,
                    !.datatarget_feedback_values =
                        ad.datatarget_feedback_values \o <<initial_value>>],
                Len(names) - 1)

\* np.unravel_index(np.arange(size), shape) raises ValueError when a flat
\* index is not below the product of the shape
CanUnravel(size, shape) == size <= Product(shape)

\* ArrayWorldAdapter._generate_names (for a size CanUnravel accepts)
generate_names(basename, size, shape) ==
    [i \in 1..size |-> JoinName(basename, unravel_index(i - 1, shape))]

\* slice(start, stop)
slice(start, stop) == [start |-> start, stop |-> stop]

\* the first lines of add_datasource_group and add_datatarget_group: the
\* size and the flat initial values, or the exception `if initial_values:`
\* raises
GroupInitial(shape, initial_values) ==
    LET t == Truth(initial_values)
    IN  IF t = "ValueError" THEN [exc |-> "ValueError", size |-> 0, values |-> <<>>]
        ELSE IF t = "true"
             THEN [exc |-> "none", size |-> Size(initial_values),
                   values |-> flatten(initial_values)]
             ELSE [exc |-> "none", size |-> Product(shape),
                   values |-> Zeros(Product(shape))]

\* ArrayWorldAdapter.add_datasource_group
add_datasource_group(ad, name, shape, initial_values) ==
    LET init == GroupInitial(shape, initial_values)
        start == Len(ad.datasource_names)
        slce == slice(start, start + init.size)
    IN  IF init.exc # "none" THEN Raises(ad, init.exc)
        ELSE IF ~CanUnravel(init.size, shape) THEN Raises(ad, "ValueError")
        ELSE Returns([ad EXCEPT
                        !.datasource_groups = DictSet(ad.datasource_groups, name, slce),
                        !.datasource_names =
                            ad.datasource_names \o generate_names(name, init.size, shape),
                        !.datasource_values = ad.datasource_values \o init.values],
                     slce)

\* add_datatarget_group with the slice starting one place early
add_datatarget_group_early(ad, name, shape, initial_values) ==
    LET init == GroupInitial(shape, initial_values)
        start == Len(ad.datatarget_names) - 1
        slce == slice(start, start + init.size)
    IN  IF init.exc # "none" THEN Raises(ad, init.exc)
        ELSE IF ~CanUnravel(init.size, shape) THEN Raises(ad, "ValueError")
        ELSE Returns([ad EXCEPT
                        !.datatarget_groups = DictSet(ad.datatarget_groups, name, slce),
                        !.datatarget_names =
                            ad.datatarget_names \o generate_names(name, init.size, shape),
                        !.datatarget_values = ad.datatarget_values \o init.values,
                        !.datatarget_feedback_values =
                            ad.datatarget_feedback_values \o Zeros(init.size)],
                     slce)

\* ArrayWorldAdapter.add_datatarget_group
add_datatarget_group(ad, name, shape, initial_values) ==
    LET init == GroupInitial(shape, initial_values)
        start == Len(ad.datatarget_names)
        slce == slice(start, start + init.size)
    IN  IF init.exc # "none" THEN Raises(ad, init.exc)
        ELSE IF ~CanUnravel(init.size, shape) THEN Raises(ad, "ValueError")
        ELSE Returns([ad EXCEPT
                        !.datatarget_groups = DictSet(ad.datatarget_groups, name, slce),
                        !.datatarget_names =
                            ad.datatarget_names \o generate_names(name, init.size, shape),
                        !.datatarget_values = ad.datatarget_values \o init.values,
                        !.datatarget_feedback_values =
                            ad.datatarget_feedback_values \o Zeros(init.size)],
                     slce)

\* ------------------------------------------- ArrayWorldAdapter: accessors

\* get_available_datasources sorting the names, as WorldAdapter's does
get_available_datasources_sorted(ad) ==
    sorted({ad.datasource_names[i] : i \in DOMAIN ad.datasource_names})

\* ArrayWorldAdapter.get_available_datasources
get_available_datasources(ad) == ad.datasource_names

\* ArrayWorldAdapter.get_available_datatargets
get_available_datatargets(ad) == ad.datatarget_names

\* ArrayWorldAdapter.get_datasource_index (-1: list.index raised ValueError)
get_datasource_index(ad, name) == ListIndex(ad.datasource_names, name)

\* ArrayWorldAdapter.get_datatarget_index (-1: list.index raised ValueError)
get_datatarget_index(ad, name) == ListIndex(ad.datatarget_names, name)

\* values[index] for the index a name resolved to: ValueError from
\* list.index, IndexError from the array when it is shorter than the names
ReadAt(ad, values, index) ==
    IF index < 0 THEN Raises(ad, "ValueError")
    ELSE IF index >= Len(values) THEN Raises(ad, "IndexError")
    ELSE Returns(ad, values[index + 1])

\* ArrayWorldAdapter.get_datasource_value
get_datasource_value(ad, key) ==
    ReadAt(ad, ad.datasource_values, get_datasource_index(ad, key))

\* ArrayWorldAdapter.get_datatarget_value
get_datatarget_value(ad, key) ==
    ReadAt(ad, ad.datatarget_values, get_datatarget_index(ad, key))

\* ArrayWorldAdapter.get_datatarget_feedback_value
get_datatarget_feedback_value(ad, key) ==
    ReadAt(ad, ad.datatarget_feedback_values, get_datatarget_index(ad, key))

\* ArrayWorldAdapter.get_datasource_values
get_datasource_values(ad) == ad.datasource_values

\* ArrayWorldAdapter.get_datatarget_values
get_datatarget_values(ad) == ad.datatarget_values

\* ArrayWorldAdapter.get_datatarget_feedback_values
get_datatarget_feedback_values(ad) == ad.datatarget_feedback_values

\* values[groups[name]], reshaped when a shape is given: KeyError from the
\* group dictionary, ValueError from reshape
ReadGroup(ad, groups, values, name, shape) ==
    IF name \notin DOMAIN groups THEN Raises(ad, "KeyError")
    ELSE LET data == Slice(values, groups[name].start, groups[name].stop)
         IN  IF shape = NoShape THEN Returns(ad, NdArray(<<Len(data)>>, data))
             ELSE IF ~CanReshape(data, shape) THEN Raises(ad, "ValueError")
             ELSE Returns(ad, reshape(data, shape))

\* ArrayWorldAdapter.get_datasource_group
get_datasource_group(ad, name, shape) ==
    ReadGroup(ad, ad.datasource_groups, ad.datasource_values, name, shape)

\* ArrayWorldAdapter.get_datatarget_group
get_datatarget_group(ad, name, shape) ==
    ReadGroup(ad, ad.datatarget_groups, ad.datatarget_values, name, shape)

\* ArrayWorldAdapter.get_datatarget_feedback_group
get_datatarget_feedback_group(ad, name, shape) ==
    ReadGroup(ad, ad.datatarget_groups, ad.datatarget_feedback_values, name, shape)

\* --------------------------------------------- ArrayWorldAdapter: writers

\* values[idx] = value; "IndexError" when the array has no such element
StoreAt(values, idx, value) == [values EXCEPT ![idx + 1] = value]

\* ArrayWorldAdapter.set_datasource_value
set_datasource_value(ad, key, value) ==
    LET idx == get_datasource_index(ad, key)
    IN  IF idx < 0 THEN Raises(ad, "ValueError")
        ELSE IF idx >= Len(ad.datasource_values) THEN Raises(ad, "IndexError")
        ELSE Returns([ad EXCEPT !.datasource_values = StoreAt(@, idx, value)], None)

\* ArrayWorldAdapter.set_datatarget_value
set_datatarget_value(ad, key, value) ==
    LET idx == get_datatarget_index(ad, key)
    IN  IF idx < 0 THEN Raises(ad, "ValueError")
        ELSE IF idx >= Len(ad.datatarget_values) THEN Raises(ad, "IndexError")
        ELSE Returns([ad EXCEPT !.datatarget_values = StoreAt(@, idx, value)], None)

\* ArrayWorldAdapter.add_to_datatarget
add_to_datatarget(ad, key, value) ==
    LET idx == get_datatarget_index(ad, key)
    IN  IF idx < 0 THEN Raises(ad, "ValueError")
        ELSE IF idx >= Len(ad.datatarget_values) THEN Raises(ad, "IndexError")
        ELSE Returns([ad EXCEPT !.datatarget_values =
                                    StoreAt(@, idx, @[idx + 1] + value)], None)

\* ArrayWorldAdapter.set_datatarget_feedback_value
set_datatarget_feedback_value(ad, key, value) ==
    LET idx == get_datatarget_index(ad, key)
    IN  IF idx < 0 THEN Raises(ad, "ValueError")
        ELSE IF idx >= Len(ad.datatarget_feedback_values) THEN Raises(ad, "IndexError")
        ELSE Returns([ad EXCEPT !.datatarget_feedback_values =
                                    StoreAt(@, idx, value)], None)

\* numpy's values[slce] = flat: the slice is clamped to the array; flat is
\* stored when it is as long as the slice and is repeated over the slice
\* (broadcast) when it has one element; any other length is refused
CanAssignSlice(values, slce, flat) ==
    LET n == Len(Slice(values, slce.start, slce.stop))
    IN  Len(flat) = n \/ Len(flat) = 1

AssignSlice(values, slce, flat) ==
    LET lo == Min(slce.start, Len(values))
        n == Len(Slice(values, slce.start, slce.stop))
    IN  [i \in 1..Len(values) |->
            IF i > lo /\ i <= lo + n
            THEN (IF Len(flat) = n THEN flat[i - lo] ELSE flat[1])
            ELSE values[i]]

\* ArrayWorldAdapter.set_datasource_group
set_datasource_group(ad, name, values) ==
    IF name \notin DOMAIN ad.datasource_groups THEN Raises(ad, "KeyError")
    ELSE LET slce == ad.datasource_groups[name]
         IN  IF ~CanAssignSlice(ad.datasource_values, slce, flatten(values))
             THEN Raises(ad, "ValueError")
             ELSE Returns([ad EXCEPT !.datasource_values =
                                AssignSlice(@, slce, flatten(values))], None)

\* add_to_datatarget_group storing into the feedback values, as the method
\* below it does
add_to_datatarget_group_feedback(ad, name, values) ==
    IF name \notin DOMAIN ad.datatarget_groups THEN Raises(ad, "KeyError")
    ELSE LET slce == ad.datatarget_groups[name]
         IN  IF ~CanAssignSlice(ad.datatarget_feedback_values, slce, flatten(values))
             THEN Raises(ad, "ValueError")
             ELSE Returns([ad EXCEPT !.datatarget_feedback_values =
                                AssignSlice(@, slce, flatten(values))], None)

\* ArrayWorldAdapter.add_to_datatarget_group
add_to_datatarget_group(ad, name, values) ==
    IF name \notin DOMAIN ad.datatarget_groups THEN Raises(ad, "KeyError")
    ELSE LET slce == ad.datatarget_groups[name]
         IN  IF ~CanAssignSlice(ad.datatarget_values, slce, flatten(values))
             THEN Raises(ad, "ValueError")
             ELSE Returns([ad EXCEPT !.datatarget_values =
                                AssignSlice(@, slce, flatten(values))], None)

\* ArrayWorldAdapter.set_datatarget_feedback_group
set_datatarget_feedback_group(ad, name, values) ==
    IF name \notin DOMAIN ad.datatarget_groups THEN Raises(ad, "KeyError")
    ELSE LET slce == ad.datatarget_groups[name]
         IN  IF ~CanAssignSlice(ad.datatarget_feedback_values, slce, flatten(values))
             THEN Raises(ad, "ValueError")
             ELSE Returns([ad EXCEPT !.datatarget_feedback_values =
                                AssignSlice(@, slce, flatten(values))], None)

\* ArrayWorldAdapter.set_datasource_values (values: a sequence)
set_datasource_values(ad, values) ==
    IF Len(values) # Len(ad.datasource_values) THEN Raises(ad, "AssertionError")
    ELSE Returns([ad EXCEPT !.datasource_values = values], None)

\* ArrayWorldAdapter.set_datatarget_values
set_datatarget_values(ad, values) ==
    IF Len(values) # Len(ad.datatarget_values) THEN Raises(ad, "AssertionError")
    ELSE Returns([ad EXCEPT !.datatarget_values = values], None)

\* ArrayWorldAdapter.add_datatarget_values
add_datatarget_values(ad, values) ==
    IF Len(values) # Len(ad.datatarget_values) THEN Raises(ad, "AssertionError")
    ELSE Returns([ad EXCEPT !.datatarget_values =
                        [i \in 1..Len(@) |-> @[i] + values[i]]], None)

\* ArrayWorldAdapter.set_datatarget_feedback_values
set_datatarget_feedback_values(ad, values) ==
    IF Len(values) # Len(ad.datatarget_feedback_values)
    THEN Raises(ad, "AssertionError")
    ELSE Returns([ad EXCEPT !.datatarget_feedback_values = values], None)

\* ArrayWorldAdapter.reset_datatargets: the body is `pass`
reset_datatargets(ad) == Returns(ad, None)

\* ------------------------------------- WorldAdapter (dictionary based)

\* WorldAdapter.get_available_datasources
WorldAdapter_get_available_datasources(ad) == sorted(DOMAIN ad.datasources)

\* WorldAdapter.get_available_datatargets
WorldAdapter_get_available_datatargets(ad) == sorted(DOMAIN ad.datatargets)

\* WorldAdapter.get_datasource_value: dict.get, None for a missing key
WorldAdapter_get_datasource_value(ad, key) ==
    IF key \in DOMAIN ad.datasources THEN Returns(ad, ad.datasources[key])
    ELSE Returns(ad, None)

\* WorldAdapter.add_to_datatarget: a missing key is skipped
WorldAdapter_add_to_datatarget(ad, key, value) ==
    IF key \in DOMAIN ad.datatargets
    THEN Returns([ad EXCEPT !.datatargets[key] = @ + value], None)
    ELSE Returns(ad, None)

\* the first n targets, in the order of get_available_datatargets, changed
\* to values[i] (set_datatarget_values) or to the old value plus values[i]
\* (add_datatarget_values): what the loops of the two methods have done
\* after n rounds
TargetsLooped(ad, values, n, adding) ==
    LET keys == WorldAdapter_get_available_datatargets(ad)
    IN  [ad EXCEPT !.datatargets =
            [k \in DOMAIN @ |->
                LET i == CHOOSE j \in 1..Len(keys) : keys[j] = k
                IN  IF i > n THEN @[k]
                    ELSE IF adding THEN @[k] + values[i] ELSE values[i]]]

\* WorldAdapter.set_datatarget_values: values[i] raises IndexError at the
\* first target values has no element for, the targets before it being
\* written; elements beyond the targets are not looked at
WorldAdapter_set_datatarget_values(ad, values) ==
    LET count == Len(WorldAdapter_get_available_datatargets(ad))
    IN  IF Len(values) < count
        THEN Raises(TargetsLooped(ad, values, Len(values), FALSE),
                    "IndexError")
        ELSE Returns(TargetsLooped(ad, values, count, FALSE), None)

\* WorldAdapter.add_datatarget_values
WorldAdapter_add_datatarget_values(ad, values) ==
    LET count == Len(WorldAdapter_get_available_datatargets(ad))
    IN  IF Len(values) < count
        THEN Raises(TargetsLooped(ad, values, Len(values), TRUE),
                    "IndexError")
        ELSE Returns(TargetsLooped(ad, values, count, TRUE), None)

\* the source values in the order of get_available_datasources
SourceVals(datasources) ==
    LET keys == sorted(DOMAIN datasources)
    IN  [i \in 1..Len(keys) |-> datasources[keys[i]]]

\* WorldAdapter.get_datasource_values
WorldAdapter_get_datasource_values(ad) == Returns(ad, SourceVals(ad.datasources))

\* WorldAdapter.get_datatarget_feedback_value: dict.get(key, 0)
WorldAdapter_get_datatarget_feedback_value(ad, key) ==
    IF key \in DOMAIN ad.datatarget_feedback
    THEN Returns(ad, ad.datatarget_feedback[key])
    ELSE Returns(ad, 0)

\* WorldAdapter.get_datatarget_feedback_values: KeyError for a target
\* without a feedback entry
WorldAdapter_get_datatarget_feedback_values(ad) ==
    LET keys == WorldAdapter_get_available_datatargets(ad)
    IN  IF \E i \in 1..Len(keys) : keys[i] \notin DOMAIN ad.datatarget_feedback
        THEN Raises(ad, "KeyError")
        ELSE Returns(ad, [i \in 1..Len(keys) |-> ad.datatarget_feedback[keys[i]]])

\* WorldAdapter.set_datatarget_feedback_value: any key is stored
WorldAdapter_set_datatarget_feedback_value(ad, key, value) ==
    Returns([ad EXCEPT !.datatarget_feedback = DictSet(@, key, value)], None)

\* WorldAdapter.reset_datatargets
WorldAdapter_reset_datatargets(ad) ==
    Returns([ad EXCEPT !.datatargets = [k \in DOMAIN @ |-> 0]], None)

\* the call of self.reset_datatargets() on an object of this kind
Dispatch_reset_datatargets(ad) ==
    IF IsArray(ad) THEN reset_datatargets(ad) ELSE WorldAdapter_reset_datatargets(ad)

\* --------------------------------- update_data_sources_and_targets

echo == Nm("echo", <<>>)

\* Default.update_data_sources_and_targets; rnd[1] is random.uniform(0, 1)
Default_update_data_sources_and_targets(ad, rnd) ==
    LET fb == IF ad.datatargets[echo] # 0
              THEN [ad.datatarget_feedback EXCEPT ![echo] = ad.datatargets[echo]]
              ELSE ad.datatarget_feedback
    IN  Returns([ad EXCEPT
                    !.datatarget_feedback = fb,
                    !.datasources = [@ EXCEPT ![Nm("static_on", <<>>)] = 1,
                                              ![Nm("random", <<>>)] = rnd[1]]],
                None)

\* the length of the random vector DefaultArray's update stores
RandnLen == 64

\* values[:] = other for two numpy arrays: refused unless other is as long
\* as values or has one element
CanAssignAll(values, other) == Len(other) = Len(values) \/ Len(other) = 1

AssignAll(values, other) ==
    [i \in 1..Len(values) |-> IF Len(other) = Len(values) THEN other[i] ELSE other[1]]

\* DefaultArray.update_data_sources_and_targets; rnd is np.random.randn(64).
\* The feedback is stored before the sources are, so it stays stored when
\* storing the sources raises.
DefaultArray_update_data_sources_and_targets(ad, rnd) ==
    IF ~CanAssignAll(ad.datatarget_feedback_values, ad.datatarget_values)
    THEN Raises(ad, "ValueError")
    ELSE LET fed == [ad EXCEPT !.datatarget_feedback_values =
                                   AssignAll(@, ad.datatarget_values)]
         IN  IF ~CanAssignAll(fed.datasource_values, rnd)
             THEN Raises(fed, "ValueError")
             ELSE Returns([fed EXCEPT !.datasource_values = AssignAll(@, rnd)], None)

\* ArrayWorldAdapter.update_data_sources_and_targets is abstract.  This is
\* the implementation of the minimal concrete subclass: it keeps what the
\* docstring asks of one (it reads the targets and sets the three arrays,
\* whose sizes stay those of the names): the targets are reported as
\* feedback and the sources are drawn; rnd is as long as the sources.
Array_update_data_sources_and_targets(ad, rnd) ==
    Returns([ad EXCEPT !.datatarget_feedback_values = ad.datatarget_values,
                       !.datasource_values = rnd], None)

\* the call of self.update_data_sources_and_targets() on this kind of object
Dispatch_update_data_sources_and_targets(ad, rnd) ==
    IF ad.kind = "Default" THEN Default_update_data_sources_and_targets(ad, rnd)
    ELSE IF ad.kind = "DefaultArray"
         THEN DefaultArray_update_data_sources_and_targets(ad, rnd)
         ELSE Array_update_data_sources_and_targets(ad, rnd)

\* ------------------------------------------------------------- update

\* a call of update() that made the calls `calls` on self, in that order
Updated(r, calls) == [ad |-> r.ad, ret |-> r.ret, exc |-> r.exc, calls |-> calls]

\* WorldAdapter.update: an exception of the first call leaves update()
\* before the second is made
update(ad, rnd) ==
    LET hook == Dispatch_update_data_sources_and_targets(ad, rnd)
    IN  IF hook.exc # "none"
        THEN Updated(hook, <<"update_data_sources_and_targets">>)
        ELSE Updated(Dispatch_reset_datatargets(hook.ad),
                     <<"update_data_sources_and_targets", "reset_datatargets">>)

\* -------------------------------------------------------- constructors

\* Default.__init__; rnd[1] is the random.uniform(0, 1) of its first update
Default_init(rnd) ==
    LET base == WorldAdapter_init("Default")
        filled == [base EXCEPT
                      !.datasources = DictOf({Nm("static_on", <<>>), Nm("random", <<>>),
                                              Nm("static_off", <<>>)}, 0),
                      !.datatargets = DictOf({echo}, 0),
                      !.datatarget_feedback = DictOf({echo}, 0)]
    IN  Default_update_data_sources_and_targets(filled, rnd).ad

\* DefaultArray.__init__; rnd is np.random.randn(len(datasource_values.shape)),
\* and the shape of the one-dimensional datasource_values has one entry
DefaultArray_init(rnd) ==
    LET a0 == ArrayWorldAdapter_init("DefaultArray")
        a1 == add_datasource(a0, Nm("test", <<>>), 0).ad
        a2 == add_datasource_group(a1, "vision", <<3, 7>>, None).ad
        a3 == add_datatarget(a2, Nm("test", <<>>), 0).ad
        a4 == add_datatarget_group(a3, "action", <<2, 3>>, None).ad
    IN  [a4 EXCEPT !.datasource_values = rnd,
                   !.datatarget_values = Zeros(Len(a4.datatarget_values))]

\* ------------------------------------------------- TimeSeries: values

\* A float of the time series is modelled by a record: NaN, the number x
\* of the archive as Num(x), a z-score as the exact fraction it is in real
\* arithmetic, and the sigmoid of a value as a term over that value (the
\* sigmoid is one-to-one).
NaN == [nan |-> TRUE]

Num(x) == [num |-> x]

\* the places of a row that are not NaN
Defined(row) == {i \in DOMAIN row : row[i] # NaN}

RECURSIVE SumOf(_, _)
\* the sum of f[i] over the i of S
SumOf(f, S) ==
    IF S = {} THEN 0
    ELSE LET i == CHOOSE j \in S : TRUE
         IN  f[i] + SumOf(f, S \ {i})

\* np.all(np.isnan(row))
AllNaN(row) == Defined(row) = {}

\* over the n places of a row that are not NaN, with S the sum and Q the
\* sum of the squares of their numbers: np.nanmean(row) is S / n and
\* np.nanvar(row) is (n * Q - S * S) / (n * n)
NanCount(row) == Cardinality(Defined(row))

NanSum(row) == SumOf([i \in DOMAIN row |-> IF row[i] = NaN THEN 0 ELSE row[i].num],
                     Defined(row))

NanSumSq(row) ==
    SumOf([i \in DOMAIN row |-> IF row[i] = NaN THEN 0 ELSE row[i].num * row[i].num],
          Defined(row))

\* n * n * np.nanvar(row), which is 0 exactly when np.nanvar(row) is
NanVarScaled(row) == NanCount(row) * NanSumSq(row) - NanSum(row) * NanSum(row)

RECURSIVE Gcd(_, _)
Gcd(a, b) == IF b = 0 THEN a ELSE Gcd(b, a % b)

\* the number whose sign is sgn and whose square is num / den, in lowest
\* terms
Root(sgn, num, den) ==
    IF num = 0 THEN [sgn |-> 0, num |-> 0, den |-> 1]
    ELSE [sgn |-> sgn, num |-> num \div Gcd(num, den), den |-> den \div Gcd(num, den)]

\* (x - np.nanmean(row)) / np.sqrt(np.nanvar(row)) for an element x of a row
\* of non-zero variance: (n * x - S) / sqrt(n * Q - S * S); NaN for NaN
ZScore(x, row) ==
    IF x = NaN THEN NaN
    ELSE LET d == NanCount(row) * x.num - NanSum(row)
         IN  Root(IF d < 0 THEN -1 ELSE 1, d * d, NanVarScaled(row))

\* the whole part of np.log(np.finfo(X.dtype).max) - 1 for float64
\* (708.78...); no z-score of this model lies between -709 and -708
Cutoff == 708

\* z <= -cutoff, for a z-score z
BelowCutoff(z) == z.sgn < 0 /\ z.num >= Cutoff * Cutoff * z.den

\* sigm(X) for one element: an element not above -cutoff is set to -cutoff,
\* then 1 / (1 + exp(-x)); NaN compares as 0 and stays NaN
sigm(x) ==
    IF x = NaN THEN NaN
    ELSE IF BelowCutoff(x) THEN [sigm |-> Root(-1, Cutoff * Cutoff, 1)]
    ELSE [sigm |-> x]

\* --------------------------------------------------- TimeSeries: load

\* the options TimeSeries.__init__ fixes
z_transform == TRUE

clip_and_scale == FALSE

sigmoid == TRUE

\* data_z[i, :] for row i of the archive: NaN as np.empty_like and
\* data_z[:] = np.nan left it, unless the row has a number and a standard
\* deviation above 0, when it is row_z (the branch of clip_and_scale is
\* never taken)
RowZ(row) ==
    IF ~AllNaN(row) /\ NanVarScaled(row) > 0
    THEN [t \in DOMAIN row |-> ZScore(row[t], row)]
    ELSE [t \in DOMAIN row |-> NaN]

\* self.timeseries after the normalization
Normalized(data) ==
    IF z_transform \/ clip_and_scale \/ sigmoid
    THEN [i \in DOMAIN data |->
            [t \in DOMAIN data[i] |->
                IF sigmoid THEN sigm(RowZ(data[i])[t]) ELSE RowZ(data[i])[t]]]
    ELSE data

\* the fields TimeSeries.__init__ reads from the archive, in its order
ArchiveFields == <<"data", "ids", "startdate", "enddate">>

\* the permutation attribute before the first assignment to it
Unset == [unset |-> TRUE]

\* timeseries.shape[1] of a two-dimensional array of the rows data
Columns(data) == IF data = <<>> THEN 0 ELSE Len(data[1])

\* TimeSeries.__init__ on the archive f, a record [fields, data, ids]: the
\* fields it has, and its matrix (rows of one length) and ids; f[...] of a
\* field the archive does not have raises KeyError.  current_step is 0 in a
\* new world.
TimeSeries_init(f) ==
    IF \E k \in DOMAIN ArchiveFields : ArchiveFields[k] \notin f.fields
    THEN [exc |-> "KeyError"]
    ELSE [exc |-> "none",
          timeseries |-> Normalized(f.data),
          ids |-> f.ids,
          shuffle |-> TRUE,
          len_ts |-> Columns(f.data),
          current_step |-> 0,
          permutation |-> Unset]

\* ------------------------------------------------- TimeSeries: state

\* timeseries[:, t], t counted from 0
Column(timeseries, t) == [i \in DOMAIN timeseries |-> timeseries[i][t + 1]]

\* TimeSeries.state with `t = self.permutation[0]` in the place of
\* `t = self.permutation[t]`
state_first(world, perm) ==
    IF world.len_ts = 0
    THEN [world |-> world, ret |-> None, exc |-> "ZeroDivisionError", t |-> -1]
    ELSE LET t == (world.current_step - 1) % world.len_ts
         IN  IF world.shuffle
             THEN LET w == IF t = 0 THEN [world EXCEPT !.permutation = perm]
                           ELSE world
                  IN  IF w.permutation = Unset
                      THEN [world |-> w, ret |-> None, exc |-> "AttributeError",
                            t |-> -1]
                      ELSE [world |-> w, exc |-> "none",
                            t |-> w.permutation[1],
                            ret |-> Column(w.timeseries, w.permutation[1])]
             ELSE [world |-> world, exc |-> "none", t |-> t,
                   ret |-> Column(world.timeseries, t)]

\* TimeSeries.state with `t = self.current_step % self.len_ts` in the place
\* of `t = (self.current_step - 1) % self.len_ts`
state_late(world, perm) ==
    IF world.len_ts = 0
    THEN [world |-> world, ret |-> None, exc |-> "ZeroDivisionError", t |-> -1]
    ELSE LET t == world.current_step % world.len_ts
         IN  IF world.shuffle
             THEN LET w == IF t = 0 THEN [world EXCEPT !.permutation = perm]
                           ELSE world
                  IN  IF w.permutation = Unset
                      THEN [world |-> w, ret |-> None, exc |-> "AttributeError",
                            t |-> -1]
                      ELSE [world |-> w, exc |-> "none",
                            t |-> w.permutation[t + 1],
                            ret |-> Column(w.timeseries, w.permutation[t + 1])]
             ELSE [world |-> world, exc |-> "none", t |-> t,
                   ret |-> Column(world.timeseries, t)]

\* the property TimeSeries.state: [world, ret, exc, t], the world after the
\* read, the vector returned and the final value of the local t, the time
\* index the vector is taken from (-1 when the read raises).  perm is what
\* np.random.permutation draws if it is called; permutation[t] of a world
\* that never had a permutation assigned raises AttributeError.
state(world, perm) ==
    IF world.len_ts = 0
    THEN [world |-> world, ret |-> None, exc |-> "ZeroDivisionError", t |-> -1]
    ELSE LET t == (world.current_step - 1) % world.len_ts
         IN  IF world.shuffle
             THEN LET w == IF t = 0 THEN [world EXCEPT !.permutation = perm]
                           ELSE world
                  IN  IF w.permutation = Unset
                      THEN [world |-> w, ret |-> None, exc |-> "AttributeError",
                            t |-> -1]
                      ELSE [world |-> w, exc |-> "none",
                            t |-> w.permutation[t + 1],
                            ret |-> Column(w.timeseries, w.permutation[t + 1])]
             ELSE [world |-> world, exc |-> "none", t |-> t,
                   ret |-> Column(world.timeseries, t)]

\* --------------------------------------------------- TimeSeriesRunner

\* str(ID)
str(ID) == Nm(ID, <<>>)

\* TimeSeriesRunner.__init__: the fields of WorldAdapter.__init__; the names
\* of the ids go to the list supported_datasources, not to datasources
TimeSeriesRunner_init(world) == WorldAdapter_init("TimeSeriesRunner")

\* the datasources after the first n rounds of the loop
\* `for idx, ID in enumerate(self.world.ids): self.datasources[str(ID)] = state[idx]`
RunnerLooped(datasources, ids, vec, n) ==
    [k \in DOMAIN datasources \cup {str(ids[i]) : i \in 1..n} |->
        IF \E i \in 1..n : str(ids[i]) = k
        THEN vec[CHOOSE i \in 1..n :
                    str(ids[i]) = k /\ \A j \in (i + 1)..n : str(ids[j]) # k]
        ELSE datasources[k]]

\* TimeSeriesRunner.update_data_sources_and_targets: [ad, world, ret, exc];
\* state[idx] raises IndexError at the first id the vector has no element
\* for, the ids before it being stored
TimeSeriesRunner_update_data_sources_and_targets(ad, world, perm) ==
    LET st == state(world, perm)
    IN  IF st.exc # "none"
        THEN [ad |-> ad, world |-> st.world, ret |-> None, exc |-> st.exc]
        ELSE LET n == Min(Len(world.ids), Len(st.ret))
                 stored == [ad EXCEPT !.datasources =
                                RunnerLooped(@, world.ids, st.ret, n)]
             IN  [ad |-> stored, world |-> st.world, ret |-> None,
                  exc |-> IF Len(world.ids) > Len(st.ret) THEN "IndexError"
                          ELSE "none"]

\* WorldAdapter.update of a TimeSeriesRunner: the hook, then
\* reset_datatargets unless the hook raised
TimeSeriesRunner_update(ad, world, perm) ==
    LET hook == TimeSeriesRunner_update_data_sources_and_targets(ad, world, perm)
    IN  IF hook.exc # "none"
        THEN [hook EXCEPT !.ret = <<"update_data_sources_and_targets">>]
        ELSE [hook EXCEPT
                !.ad = Dispatch_reset_datatargets(hook.ad).ad,
                !.ret = <<"update_data_sources_and_targets", "reset_datatargets">>]

\* ---------------------------------------------------------- history

\* a registration that returned: of a scalar channel (ret: its index), of
\* a group (ret: its slice), or of a key of a dictionary based adapter
Registered(op, name, shape, ret) ==
    [op |-> op, name |-> name, shape |-> shape, ret |-> ret]

NoLog == [sources |-> <<>>, targets |-> <<>>]

\* the registrations Default.__init__ makes
Default_log ==
    [sources |-> <<Registered("key", Nm("static_on", <<>>), <<>>, None),
                   Registered("key", Nm("random", <<>>), <<>>, None),
                   Registered("key", Nm("static_off", <<>>), <<>>, None)>>,
     targets |-> <<Registered("key", echo, <<>>, None)>>]

\* the registrations DefaultArray.__init__ makes, with what they returned
DefaultArray_log ==
    LET a0 == ArrayWorldAdapter_init("DefaultArray")
        r1 == add_datasource(a0, Nm("test", <<>>), 0)
        r2 == add_datasource_group(r1.ad, "vision", <<3, 7>>, None)
        r3 == add_datatarget(r2.ad, Nm("test", <<>>), 0)
        r4 == add_datatarget_group(r3.ad, "action", <<2, 3>>, None)
    IN  [sources |-> <<Registered("scalar", Nm("test", <<>>), <<>>, r1.ret),
                       Registered("group", "vision", <<3, 7>>, r2.ret)>>,
         targets |-> <<Registered("scalar", Nm("test", <<>>), <<>>, r3.ret),
                       Registered("group", "action", <<2, 3>>, r4.ret)>>]

\* ------------------------------------------------------------- inputs

Kinds == {"Default", "ArrayWorldAdapter", "DefaultArray"}

\* what random.uniform and np.random.randn draw
RandVals == {0, 1}

\* the values the callers write and give as initial values
WriteVals == {1}

\* names given to scalar channels
ScalarNames == {Nm("test", <<>>), Nm("action", <<0>>)}

\* names the callers read and write by: "test" is no channel of Default,
\* "echo" is none of the array adapters
KeyNames == {Nm("test", <<>>), echo}

GroupNames == {"action", "vision"}

Shapes == {<<1>>, <<1, 2>>}

\* 2, 1, 2, 1, ...: neighbours differ
Pattern(n) == [i \in 1..n |-> 1 + (i % 2)]

\* the initial values given with a group of this shape: none, or a
\* full-size array of the shape
InitialArrays(shape) == {None, NdArray(shape, Pattern(Product(shape)))}

\* the arrays written to a group: of the shapes of the groups of this
\* model (<<2, 3>> is DefaultArray's "action"), filled with the pattern
GroupArrays ==
    {NdArray(shape, Pattern(Product(shape))) : shape \in Shapes \cup {<<2, 3>>}}

\* the sequences given to a whole-buffer setter of a buffer of length n:
\* of that length, one shorter and one longer
BulkValues(n) ==
    {[i \in 1..m |-> c] : m \in {n - 1, n, n + 1} \cap Nat, c \in WriteVals}

\* the random vectors update() may draw for this object
RandomDraws(ad) ==
    IF ad.kind = "Default" THEN {<<c>> : c \in RandVals}
    ELSE IF ad.kind = "DefaultArray" THEN {[i \in 1..RandnLen |-> c] : c \in RandVals}
    ELSE [1..Len(ad.datasource_values) -> RandVals]

\* the archives loaded: with all fields or without one of them, and with
\* as many ids as rows, fewer or more.  The matrices have rows of
\* different numbers, a row of one number, a row of NaN only and rows with
\* some NaN.
Matrices ==
    {<<<<Num(1), Num(2), Num(3)>>, <<Num(2), Num(2), Num(2)>>>>,
     <<<<Num(1), Num(2)>>, <<NaN, NaN>>>>,
     <<<<Num(1), Num(2)>>, <<Num(2), Num(1)>>>>,
     <<<<Num(2), NaN, Num(2)>>, <<Num(1), NaN, Num(3)>>>>}

Archive(fields, data, ids) == [fields |-> fields, data |-> data, ids |-> ids]

AllFields == {ArchiveFields[k] : k \in DOMAIN ArchiveFields}

Archives ==
    {Archive(AllFields, data, <<"1", "2">>) : data \in Matrices}
    \cup {Archive(AllFields, <<<<Num(1), Num(2)>>, <<NaN, NaN>>>>, ids) :
              ids \in {<<"1">>, <<"1", "2", "3">>}}
    \cup {Archive(AllFields \ {field}, <<<<Num(1), Num(2)>>, <<NaN, NaN>>>>,
                  <<"1", "2">>) : field \in AllFields}

\* the values np.random.permutation(np.arange(n)) may return
RandomPermutations(n) ==
    {p \in [1..n -> 0..(n - 1)] : \A i, j \in 1..n : p[i] = p[j] => i = j}

\* what np.random.permutation may draw in a read of state of this world
\* (Unset: it is not called)
PermutationDraws(world) ==
    IF world.len_ts > 0 /\ world.shuffle
       /\ (world.current_step - 1) % world.len_ts = 0
    THEN RandomPermutations(world.len_ts)
    ELSE {Unset}

\* -------------------------------------------------------------- state

VARIABLES
    adapter,    \* the adapter object: its fields
    last,       \* the last call made on it: [op, args, ret, exc, calls, seen, due]
    log,        \* history: the registrations that returned, by role and in
                \* their order: [sources, targets], sequences of Registered
    ncalls,     \* history: the number of calls made since the construction
    acc,        \* history: the target values the writes made since the last
                \* completed update() amount to, starting from zero
    world,      \* the world object of the adapter: the fields of a TimeSeries
    played,     \* history: the archive the world was loaded from, and the
                \* reads of its state: [file, visits]
    hook,       \* the call of update_data_sources_and_targets the world's
                \* thread is in, when the agent runs on a thread of its own:
                \* [idx, state, before], the rounds of its loop done, the
                \* vector it read and the sources it found
    shared      \* what the adapter objects of one process share, and the
                \* objects: [supported_datasources, default_config,
                \* instances], the class attribute of TimeSeriesRunner, the
                \* dictionary that is the default of the parameter config
                \* of WorldAdapter.__init__, and the adapters constructed

vars == <<adapter, last, log, ncalls, acc, world, played, hook, shared>>

\* a new process: the class attribute and the default are the empty list
\* and dictionary of their definitions, no adapter is constructed
NoInstances ==
    [supported_datasources |-> <<>>, default_config |-> EmptyDict,
     instances |-> <<>>]

\* the world's thread is in no call of the hook
NoHook == [idx |-> -1]

\* a world that is no TimeSeries: the adapters of worldadapter.py read
\* nothing of it
AnyWorld == [exc |-> "none"]

NoPlay == [file |-> None, visits |-> <<>>]

\* the target values in the order of get_available_datatargets
TargetVals(ad) ==
    IF IsArray(ad) THEN ad.datatarget_values
    ELSE LET keys == WorldAdapter_get_available_datatargets(ad)
         IN  [i \in 1..Len(keys) |-> ad.datatargets[keys[i]]]

\* the object with these target values
WithTargets(ad, vals) ==
    IF IsArray(ad) THEN [ad EXCEPT !.datatarget_values = vals]
    ELSE LET keys == WorldAdapter_get_available_datatargets(ad)
         IN  [ad EXCEPT !.datatargets =
                 [k \in DOMAIN @ |->
                     vals[CHOOSE i \in 1..Len(keys) : keys[i] = k]]]

NoCall == [op |-> "__init__", args |-> <<>>, ret |-> None, exc |-> "none",
           calls |-> <<>>, seen |-> <<>>, due |-> <<>>]

Init ==
    /\ \E kind \in Kinds :
          adapter \in
             IF kind = "Default" THEN {Default_init(<<c>>) : c \in RandVals}
             ELSE IF kind = "DefaultArray"
                  THEN {DefaultArray_init(<<c>>) : c \in RandVals}
                  ELSE {ArrayWorldAdapter_init(kind)}
    /\ last = NoCall
    /\ log = IF adapter.kind = "Default" THEN Default_log
             ELSE IF adapter.kind = "DefaultArray" THEN DefaultArray_log
             ELSE NoLog
    /\ ncalls = 0
    /\ acc = TargetVals(adapter)
    /\ world = AnyWorld
    /\ played = NoPlay
    /\ hook = NoHook
    /\ shared = NoInstances

\* no adapter: the world it is for could not be constructed
NoAdapter == [kind |-> "none"]

\* a TimeSeries world loaded from an archive, and a TimeSeriesRunner in it
InitTimeSeries ==
    /\ \E f \in Archives :
          /\ world = TimeSeries_init(f)
          /\ played = [file |-> f, visits |-> <<>>]
    /\ adapter = IF world.exc = "none" THEN TimeSeriesRunner_init(world)
                 ELSE NoAdapter
    /\ last = [NoCall EXCEPT !.exc = world.exc]
    /\ log = NoLog
    /\ ncalls = 0
    /\ acc = <<>>
    /\ hook = NoHook
    /\ shared = NoInstances

\* a further call may be made
CanCall == ncalls < MaxCalls

\* the history after the call op(args) gave result r
Logged(op, args, r) ==
    IF r.exc # "none" THEN log
    ELSE IF op = "add_datasource"
         THEN [log EXCEPT !.sources =
                   Append(@, Registered("scalar", args[1], <<>>, r.ret))]
    ELSE IF op = "add_datatarget"
         THEN [log EXCEPT !.targets =
                   Append(@, Registered("scalar", args[1], <<>>, r.ret))]
    ELSE IF op = "add_datasource_group"
         THEN [log EXCEPT !.sources =
                   Append(@, Registered("group", args[1], args[2], r.ret))]
    ELSE IF op = "add_datatarget_group"
         THEN [log EXCEPT !.targets =
                   Append(@, Registered("group", args[1], args[2], r.ret))]
    ELSE log

\* the call op(args) on the adapter, F(ad) being its result on object ad
Call(op, args, F(_)) ==
    LET r == F(adapter)
        g == F(WithTargets(adapter, acc))
    IN  /\ ncalls' = ncalls + 1
        /\ log' = Logged(op, args, r)
        /\ adapter' = r.ad
        /\ last' = [NoCall EXCEPT !.op = op, !.args = args, !.ret = r.ret,
                                  !.exc = r.exc]
        /\ acc' = TargetVals(g.ad)
        /\ UNCHANGED <<world, played, hook, shared>>

\* ------------------------------------------------------------ actions

AddDatasource ==
    /\ CanCall
    /\ IsArray(adapter)
    /\ \E name \in ScalarNames, v \in WriteVals :
          Call("add_datasource", <<name, v>>, LAMBDA ad : add_datasource(ad, name, v))

AddDatatarget ==
    /\ CanCall
    /\ IsArray(adapter)
    /\ \E name \in ScalarNames, v \in WriteVals :
          Call("add_datatarget", <<name, v>>, LAMBDA ad : add_datatarget(ad, name, v))

AddDatasourceGroup ==
    /\ CanCall
    /\ IsArray(adapter)
    /\ \E name \in GroupNames, shape \in Shapes :
          \E initial \in InitialArrays(shape) :
             Call("add_datasource_group", <<name, shape, initial>>,
                  LAMBDA ad : add_datasource_group(ad, name, shape, initial))

AddDatatargetGroup ==
    /\ CanCall
    /\ IsArray(adapter)
    /\ \E name \in GroupNames, shape \in Shapes :
          \E initial \in InitialArrays(shape) :
             Call("add_datatarget_group", <<name, shape, initial>>,
                  LAMBDA ad : add_datatarget_group(ad, name, shape, initial))

GetDatasourceValue ==
    /\ CanCall
    /\ \E key \in KeyNames :
       Call("get_datasource_value", <<key>>,
            LAMBDA ad : IF IsArray(ad) THEN get_datasource_value(ad, key)
                        ELSE WorldAdapter_get_datasource_value(ad, key))

GetDatatargetValue ==
    /\ CanCall
    /\ IsArray(adapter)
    /\ \E key \in KeyNames :
          Call("get_datatarget_value", <<key>>,
               LAMBDA ad : get_datatarget_value(ad, key))

GetDatatargetFeedbackValue ==
    /\ CanCall
    /\ \E key \in KeyNames :
       Call("get_datatarget_feedback_value", <<key>>,
            LAMBDA ad : IF IsArray(ad) THEN get_datatarget_feedback_value(ad, key)
                        ELSE WorldAdapter_get_datatarget_feedback_value(ad, key))

SetDatatargetValue ==
    /\ CanCall
    /\ IsArray(adapter)
    /\ \E key \in KeyNames, v \in WriteVals :
          Call("set_datatarget_value", <<key, v>>,
               LAMBDA ad : set_datatarget_value(ad, key, v))

AddToDatatarget ==
    /\ CanCall
    /\ \E key \in KeyNames, v \in WriteVals :
       Call("add_to_datatarget", <<key, v>>,
            LAMBDA ad : IF IsArray(ad) THEN add_to_datatarget(ad, key, v)
                        ELSE WorldAdapter_add_to_datatarget(ad, key, v))

SetDatatargetFeedbackValue ==
    /\ CanCall
    /\ \E key \in KeyNames, v \in WriteVals :
       Call("set_datatarget_feedback_value", <<key, v>>,
            LAMBDA ad : IF IsArray(ad) THEN set_datatarget_feedback_value(ad, key, v)
                        ELSE WorldAdapter_set_datatarget_feedback_value(ad, key, v))

AddToDatatargetGroup ==
    /\ CanCall
    /\ IsArray(adapter)
    /\ \E name \in GroupNames, values \in GroupArrays :
          Call("add_to_datatarget_group", <<name, values>>,
               LAMBDA ad : add_to_datatarget_group(ad, name, values))

SetDatasourceGroup ==
    /\ CanCall
    /\ IsArray(adapter)
    /\ \E name \in GroupNames, values \in GroupArrays :
          Call("set_datasource_group", <<name, values>>,
               LAMBDA ad : set_datasource_group(ad, name, values))

SetDatatargetFeedbackGroup ==
    /\ CanCall
    /\ IsArray(adapter)
    /\ \E name \in GroupNames, values \in GroupArrays :
          Call("set_datatarget_feedback_group", <<name, values>>,
               LAMBDA ad : set_datatarget_feedback_group(ad, name, values))

SetDatasourceValues ==
    /\ CanCall
    /\ IsArray(adapter)
    /\ \E values \in BulkValues(Len(adapter.datasource_values)) :
          Call("set_datasource_values", <<values>>,
               LAMBDA ad : set_datasource_values(ad, values))

SetDatatargetValues ==
    /\ CanCall
    /\ \E values \in BulkValues(Len(TargetVals(adapter))) :
          Call("set_datatarget_values", <<values>>,
               LAMBDA ad : IF IsArray(ad) THEN set_datatarget_values(ad, values)
                           ELSE WorldAdapter_set_datatarget_values(ad, values))

AddDatatargetValues ==
    /\ CanCall
    /\ \E values \in BulkValues(Len(TargetVals(adapter))) :
          Call("add_datatarget_values", <<values>>,
               LAMBDA ad : IF IsArray(ad) THEN add_datatarget_values(ad, values)
                           ELSE WorldAdapter_add_datatarget_values(ad, values))

SetDatatargetFeedbackValues ==
    /\ CanCall
    /\ IsArray(adapter)
    /\ \E values \in BulkValues(Len(adapter.datatarget_feedback_values)) :
          Call("set_datatarget_feedback_values", <<values>>,
               LAMBDA ad : set_datatarget_feedback_values(ad, values))

ResetDatatargets ==
    /\ CanCall
    /\ Call("reset_datatargets", <<>>, LAMBDA ad : Dispatch_reset_datatargets(ad))

\* the world's call of update(): a completed update ends the accumulation
Update ==
    /\ CanCall
    /\ \E rnd \in RandomDraws(adapter) :
       LET r == update(adapter, rnd)
       IN  /\ ncalls' = ncalls + 1
           /\ log' = log
           /\ adapter' = r.ad
           /\ last' = [NoCall EXCEPT !.op = "update", !.args = <<rnd>>,
                                     !.ret = r.ret, !.exc = r.exc,
                                     !.calls = r.calls,
                                     !.seen = TargetVals(adapter), !.due = acc]
           /\ acc' = IF r.exc = "none" THEN Zeros(Len(acc)) ELSE acc
           /\ UNCHANGED <<world, played, hook, shared>>

\* a further call may be made on the TimeSeries world
CanPlay == ncalls < MaxPlays /\ world.exc = "none" /\ adapter.kind = "TimeSeriesRunner"

\* the read of state of world w, which drew perm if it drew, as history
Visit(w, perm) ==
    LET st == state(w, perm)
    IN  [step |-> w.current_step, shuffle |-> w.shuffle, exc |-> st.exc,
         index |-> st.t,
         ret |-> st.ret,
         drew |-> perm # Unset,
         permutation |-> st.world.permutation]

\* one step of the world: it counts the step and calls update() of its
\* adapter, whose hook reads the state
Step ==
    /\ CanPlay
    /\ LET w == [world EXCEPT !.current_step = @ + 1]
       IN  \E perm \in PermutationDraws(w) :
              LET r == TimeSeriesRunner_update(adapter, w, perm)
              IN  /\ world' = r.world
                  /\ adapter' = r.ad
                  /\ last' = [NoCall EXCEPT !.op = "update", !.args = <<perm>>,
                                            !.exc = r.exc, !.calls = r.ret]
                  /\ played' = [played EXCEPT !.visits = Append(@, Visit(w, perm))]
    /\ ncalls' = ncalls + 1
    /\ UNCHANGED <<log, acc, hook, shared>>

\* a caller sets current_step and reads the state
Advance ==
    /\ CanPlay
    /\ \E step \in 0..MaxStep :
          LET w == [world EXCEPT !.current_step = step]
          IN  \E perm \in PermutationDraws(w) :
                 LET st == state(w, perm)
                 IN  /\ world' = st.world
                     /\ last' = [NoCall EXCEPT !.op = "state", !.args = <<step>>,
                                               !.ret = st.ret, !.exc = st.exc]
                     /\ played' = [played EXCEPT
                                      !.visits = Append(@, Visit(w, perm))]
    /\ ncalls' = ncalls + 1
    /\ UNCHANGED <<adapter, log, acc, hook, shared>>

\* a caller assigns the attribute shuffle (TimeSeries.__init__ sets True)
SetShuffle ==
    /\ CanPlay
    /\ \E b \in BOOLEAN \ {world.shuffle} :
          /\ world' = [world EXCEPT !.shuffle = b]
          /\ last' = [NoCall EXCEPT !.op = "shuffle", !.args = <<b>>]
    /\ ncalls' = ncalls + 1
    /\ UNCHANGED <<adapter, log, acc, played, hook, shared>>

\* The world steps on its thread while the agent reads on another.  No
\* method of worldadapter.py or timeseries.py acquires datasource_lock, so
\* the threads interleave between the rounds of the hook's loop.

\* the world counts a step and enters update(): the hook reads the state
HookBegin ==
    /\ CanPlay
    /\ hook = NoHook
    /\ LET w == [world EXCEPT !.current_step = @ + 1]
       IN  \E perm \in PermutationDraws(w) :
              LET st == state(w, perm)
              IN  /\ world' = st.world
                  /\ hook' = IF st.exc # "none" THEN NoHook
                             ELSE [idx |-> 0, state |-> st.ret,
                                   before |-> adapter.datasources]
                  /\ last' = [NoCall EXCEPT !.op = "update", !.args = <<perm>>,
                                            !.exc = st.exc]
                  /\ played' = [played EXCEPT !.visits = Append(@, Visit(w, perm))]
    /\ ncalls' = ncalls + 1
    /\ UNCHANGED <<adapter, log, acc, shared>>

\* one round of the loop of the hook:
\* `self.datasources[str(ID)] = state[idx]`
HookStore ==
    /\ hook # NoHook
    /\ hook.idx < Len(world.ids)
    /\ IF hook.idx + 1 > Len(hook.state)
       THEN /\ hook' = NoHook
            /\ last' = [NoCall EXCEPT !.op = "update", !.exc = "IndexError"]
            /\ UNCHANGED adapter
       ELSE /\ adapter' = [adapter EXCEPT !.datasources =
                              DictSet(@, str(world.ids[hook.idx + 1]),
                                      hook.state[hook.idx + 1])]
            /\ hook' = [hook EXCEPT !.idx = @ + 1]
            /\ UNCHANGED last
    /\ UNCHANGED <<log, ncalls, acc, world, played, shared>>

\* the loop of the hook is done: update() calls reset_datatargets and returns
HookEnd ==
    /\ hook # NoHook
    /\ hook.idx = Len(world.ids)
    /\ adapter' = Dispatch_reset_datatargets(adapter).ad
    /\ hook' = NoHook
    /\ UNCHANGED <<last, log, ncalls, acc, world, played, shared>>

\* the agent calls get_datasource_values() on its thread
AgentRead ==
    /\ CanPlay
    /\ LET r == WorldAdapter_get_datasource_values(adapter)
       IN  last' = [NoCall EXCEPT !.op = "get_datasource_values",
                                 !.ret = r.ret, !.exc = r.exc]
    /\ ncalls' = ncalls + 1
    /\ UNCHANGED <<adapter, log, acc, world, played, hook, shared>>

\* Several adapters in one process.

\* the loop `for item in self.__class__.get_config_options()` of
\* WorldAdapter.__init__: config gets the default of every option it has no
\* entry for
FilledConfig(config, options) ==
    [k \in DOMAIN config \cup {options[i].name : i \in DOMAIN options} |->
        IF k \in DOMAIN config THEN config[k]
        ELSE options[CHOOSE i \in DOMAIN options : options[i].name = k].default]

\* what get_config_options() of the class of an adapter returns: [] for the
\* classes of worldadapter.py and timeseries.py, its options for a class
\* that declares some
OptionLists == {<<>>, <<[name |-> "step", default |-> 1]>>}

\* the argument config of a construction: none, or a dictionary of the caller
ConfigArgs ==
    {[passed |-> FALSE, config |-> EmptyDict],
     [passed |-> TRUE, config |-> EmptyDict],
     [passed |-> TRUE, config |-> [k \in {"step"} |-> 2]]}

\* the ids of the worlds adapters are constructed in
IdLists == {<<"1">>, <<"1", "2">>}

\* self.config of the adapter object inst: the dictionary passed to its
\* construction, or the default of the parameter, one object for all calls
ConfigOf(sh, inst) ==
    IF inst.passed THEN inst.config ELSE sh.default_config

\* TimeSeriesRunner(world) for a world with these ids, the class declaring
\* options and the caller giving arg as config: WorldAdapter.__init__ fills
\* the config object and sets every entry of it as an attribute, and
\* TimeSeriesRunner.__init__ appends the ids to the list of the class
TimeSeriesRunner_new(sh, ids, options, arg) ==
    LET config == FilledConfig(IF arg.passed THEN arg.config
                               ELSE sh.default_config, options)
        inst == [ad |-> TimeSeriesRunner_init(ids),
                 ids |-> ids,
                 passed |-> arg.passed,
                 config |-> IF arg.passed THEN config ELSE EmptyDict,
                 attrs |-> config]
    IN  [sh EXCEPT
            !.default_config = IF arg.passed THEN @ ELSE config,
            !.supported_datasources = @ \o [i \in 1..Len(ids) |-> str(ids[i])],
            !.instances = Append(@, inst)]

\* what adapter j of the process is made of: its configuration, its
\* attributes, the supported sources it reads from its class, and its
\* registries and buffers
InstanceView(sh, j) ==
    [config |-> ConfigOf(sh, sh.instances[j]),
     attrs |-> sh.instances[j].attrs,
     supported_datasources |-> sh.supported_datasources,
     ad |-> sh.instances[j].ad]

\* an adapter is constructed
Construct ==
    /\ CanCall
    /\ \E ids \in IdLists, options \in OptionLists, arg \in ConfigArgs :
          /\ shared' = TimeSeriesRunner_new(shared, ids, options, arg)
          /\ last' = [NoCall EXCEPT !.op = "TimeSeriesRunner",
                                    !.args = <<Len(shared.instances) + 1>>]
    /\ ncalls' = ncalls + 1
    /\ UNCHANGED <<adapter, log, acc, world, played, hook>>

\* the world of adapter j steps: its hook stores the state vector, here c
\* for every id, in its sources
Tick ==
    /\ CanCall
    /\ \E j \in DOMAIN shared.instances, c \in RandVals :
          LET ids == shared.instances[j].ids
          IN  /\ shared' = [shared EXCEPT !.instances[j].ad.datasources =
                               RunnerLooped(@, ids, [i \in 1..Len(ids) |-> c],
                                            Len(ids))]
              /\ last' = [NoCall EXCEPT !.op = "update", !.args = <<j>>]
    /\ ncalls' = ncalls + 1
    /\ UNCHANGED <<adapter, log, acc, world, played, hook>>

\* no adapter constructed yet
InitInstances ==
    /\ adapter = NoAdapter
    /\ last = NoCall
    /\ log = NoLog
    /\ ncalls = 0
    /\ acc = <<>>
    /\ world = AnyWorld
    /\ played = NoPlay
    /\ hook = NoHook
    /\ shared = NoInstances

\* the calls of an agent and a world on a constructed adapter, whose
\* targets may still be registered
Next ==
    \/ AddDatatarget
    \/ AddDatatargetGroup
    \/ SetDatatargetValue
    \/ AddToDatatarget
    \/ SetDatatargetFeedbackValue
    \/ AddToDatatargetGroup
    \/ SetDatatargetValues
    \/ SetDatatargetFeedbackValues
    \/ ResetDatatargets
    \/ Update

Spec == Init /\ [][Next]_vars

\* the registrations of both roles, and the world's update
NextRegistry ==
    \/ AddDatasource
    \/ AddDatatarget
    \/ AddDatasourceGroup
    \/ AddDatatargetGroup
    \/ SetDatasourceValues
    \/ Update

SpecRegistry == Init /\ [][NextRegistry]_vars

\* the registrations of groups and the writes to whole groups
NextGroups ==
    \/ AddDatasourceGroup
    \/ AddDatatargetGroup
    \/ SetDatasourceGroup
    \/ AddToDatatargetGroup
    \/ SetDatatargetFeedbackGroup

SpecGroups == Init /\ [][NextGroups]_vars

\* the registrations of scalar channels and the writes of whole buffers
NextBulk ==
    \/ AddDatasource
    \/ AddDatatarget
    \/ SetDatasourceValues
    \/ SetDatatargetValues
    \/ AddDatatargetValues
    \/ SetDatatargetFeedbackValues

SpecBulk == Init /\ [][NextBulk]_vars

\* the registrations of scalar channels and the reads and writes of one
\* value by its name
NextScalar ==
    \/ AddDatasource
    \/ AddDatatarget
    \/ GetDatasourceValue
    \/ GetDatatargetValue
    \/ GetDatatargetFeedbackValue
    \/ SetDatatargetValue
    \/ AddToDatatarget
    \/ SetDatatargetFeedbackValue

SpecScalar == Init /\ [][NextScalar]_vars

\* the steps of a TimeSeries world with its TimeSeriesRunner, and the reads
\* of its state
NextTimeSeries ==
    \/ Step
    \/ Advance
    \/ SetShuffle

SpecTimeSeries == InitTimeSeries /\ [][NextTimeSeries]_vars

\* a TimeSeries world stepping on one thread, the agent reading the sources
\* of its TimeSeriesRunner on another
NextThreads ==
    \/ HookBegin
    \/ HookStore
    \/ HookEnd
    \/ AgentRead

SpecThreads == InitTimeSeries /\ [][NextThreads]_vars

\* adapters are constructed in one process, and their worlds step
NextInstances ==
    \/ Construct
    \/ Tick

SpecInstances == InitInstances /\ [][NextInstances]_vars

\* ------------------------------------------------------------- claims

AllZero(seq) == \A i \in DOMAIN seq : seq[i] = 0

\* C1: every call of update() calls update_data_sources_and_targets() once
\* and then reset_datatargets() once, in that order, and skips neither.
C1_UpdateCallsHookThenReset ==
    last.op = "update" =>
        last.calls = <<"update_data_sources_and_targets", "reset_datatargets">>

\* C2: the target values update() reads are exactly what the writes made
\* since the last completed update() amount to, and every target value is 0
\* when update() has returned.
C2_TargetsHoldOneTickOfWrites ==
    (last.op = "update" /\ last.exc = "none") =>
        /\ last.seen = last.due
        /\ AllZero(TargetVals(adapter))

\* C3: after reset_datatargets() every target value is 0, and the source and
\* feedback values are as before.
C3_ResetZeroesTargets ==
    [][last'.op = "reset_datatargets" =>
          /\ AllZero(TargetVals(adapter'))
          /\ adapter'.datasource_values = adapter.datasource_values
          /\ adapter'.datatarget_feedback_values = adapter.datatarget_feedback_values
          /\ adapter'.datasources = adapter.datasources
          /\ adapter'.datatarget_feedback = adapter.datatarget_feedback]_ncalls

\* the names a registration call resolves to
ResolvedNames(call) ==
    IF call.op \in {"add_datasource", "add_datatarget"} THEN {call.args[1]}
    ELSE {JoinName(call.args[1], unravel_index(k, call.args[2])) :
              k \in 0..(Product(call.args[2]) - 1)}

IsRegistration(call) ==
    call.op \in {"add_datasource", "add_datatarget",
                 "add_datasource_group", "add_datatarget_group"}

IsGroupRegistration(call) ==
    call.op \in {"add_datasource_group", "add_datatarget_group"}

\* the names and the groups of the role a registration call is for
RoleNames(ad, call) ==
    IF call.op \in {"add_datasource", "add_datasource_group"}
    THEN ad.datasource_names ELSE ad.datatarget_names

RoleGroups(ad, call) ==
    IF call.op \in {"add_datasource", "add_datasource_group"}
    THEN ad.datasource_groups ELSE ad.datatarget_groups

\* the call registers a name its role already has
Collides(ad, call) ==
    \/ \E i \in DOMAIN RoleNames(ad, call) :
          RoleNames(ad, call)[i] \in ResolvedNames(call)
    \/ IsGroupRegistration(call) /\ call.args[1] \in DOMAIN RoleGroups(ad, call)

NoDuplicates(seq) == \A i, j \in DOMAIN seq : seq[i] = seq[j] => i = j

\* C4: a registration of a name its role already has fails with
\* DuplicateNameError and changes nothing, so the names of a role are
\* always distinct.
C4_DuplicateRegistrationFails ==
    /\ [][(IsRegistration(last') /\ Collides(adapter, last')) =>
             (last'.exc = "DuplicateNameError" /\ adapter' = adapter)]_ncalls
    /\ [](IsArray(adapter) =>
             /\ NoDuplicates(adapter.datasource_names)
             /\ NoDuplicates(adapter.datatarget_names))

\* C5: in every state of an array adapter each value buffer is as long as
\* the list of the names of its role.
C5_BufferLengthIsNameCount ==
    IsArray(adapter) =>
        /\ Len(get_datasource_values(adapter)) = Len(get_available_datasources(adapter))
        /\ Len(get_datatarget_values(adapter)) = Len(get_available_datatargets(adapter))

\* the call of get_available_datasources() and of get_available_datatargets()
\* on an object of this kind
Dispatch_get_available_datasources(ad) ==
    IF IsArray(ad) THEN get_available_datasources(ad)
    ELSE WorldAdapter_get_available_datasources(ad)

Dispatch_get_available_datatargets(ad) ==
    IF IsArray(ad) THEN get_available_datatargets(ad)
    ELSE WorldAdapter_get_available_datatargets(ad)

RECURSIVE LogNames(_)
\* the names a sequence of registrations registered, in their order: a
\* scalar's name, and for a group one name for each of its elements in
\* row-major order
LogNames(entries) ==
    IF entries = <<>> THEN <<>>
    ELSE LET e == Head(entries)
         IN  (IF e.op = "group"
              THEN [k \in 1..Product(e.shape) |->
                       JoinName(e.name, unravel_index(k - 1, e.shape))]
              ELSE <<e.name>>)
             \o LogNames(Tail(entries))

SeqRange(seq) == {seq[i] : i \in DOMAIN seq}

Dispatch_get_datatarget_feedback_values(ad) ==
    IF IsArray(ad) THEN Returns(ad, get_datatarget_feedback_values(ad))
    ELSE WorldAdapter_get_datatarget_feedback_values(ad)

\* C7: the targets and the feedback have the same length and the same
\* places: one feedback value for every registered target and none else, so
\* that all feedback values can be read.
C7_FeedbackAlignedWithTargets ==
    /\ IsArray(adapter) =>
          /\ Len(adapter.datatarget_feedback_values) = Len(adapter.datatarget_values)
          /\ Len(adapter.datatarget_feedback_values) = Len(adapter.datatarget_names)
    /\ ~IsArray(adapter) =>
          DOMAIN adapter.datatarget_feedback = DOMAIN adapter.datatargets
    /\ Dispatch_get_datatarget_feedback_values(adapter).exc = "none"

\* the indices of a slice
SliceIndices(slce) == slce.start..(slce.stop - 1)

\* the shape given at the last registration of a group of this name
GroupShape(entries, name) ==
    LET at == CHOOSE i \in DOMAIN entries :
                 /\ entries[i].op = "group" /\ entries[i].name = name
                 /\ \A j \in DOMAIN entries :
                       (entries[j].op = "group" /\ entries[j].name = name) => j <= i
    IN  entries[at].shape

\* the indices the registrations of scalar channels returned
ScalarIndices(entries) ==
    {entries[i].ret : i \in {j \in DOMAIN entries : entries[j].op = "scalar"}}

\* the ranges of the groups of one role are disjoint from each other and
\* from the indices of the scalar channels, lie within the names, and each
\* is as long as the product of the shape of its group
RangesDisjoint(groups, names, entries) ==
    /\ \A g \in DOMAIN groups :
          /\ groups[g].stop = groups[g].start + Product(GroupShape(entries, g))
          /\ 0 <= groups[g].start /\ groups[g].stop <= Len(names)
          /\ SliceIndices(groups[g]) \cap ScalarIndices(entries) = {}
    /\ \A g, h \in DOMAIN groups :
          g # h => SliceIndices(groups[g]) \cap SliceIndices(groups[h]) = {}

GetRegisteredGroup(ad, call) ==
    IF call.op = "add_datasource_group"
    THEN get_datasource_group(ad, call.args[1], call.args[2])
    ELSE get_datatarget_group(ad, call.args[1], call.args[2])

\* C9: the registration of a group with a shape and with full-size initial
\* values, or none, succeeds, and reading the group with the shape then
\* gives the initial values in that shape, zeros when none were given.
C9_GroupRoundTrip ==
    IsGroupRegistration(last) =>
        /\ last.exc = "none"
        /\ GetRegisteredGroup(adapter, last).exc = "none"
        /\ GetRegisteredGroup(adapter, last).ret =
              NdArray(last.args[2],
                      IF last.args[3] = None THEN Zeros(Product(last.args[2]))
                      ELSE flatten(last.args[3]))

\* C10: add_to_datatarget_group(name, v) for a registered group and a v as
\* large as the group succeeds; get_datatarget_group(name) then returns v
\* flattened, and the target values outside the group are as before.
C10_AddToGroupThenGet ==
    [][(/\ last'.op = "add_to_datatarget_group"
        /\ last'.args[1] \in DOMAIN adapter.datatarget_groups
        /\ Size(last'.args[2])
              = Product(GroupShape(log.targets, last'.args[1])))
       => (/\ last'.exc = "none"
           /\ get_datatarget_group(adapter', last'.args[1], NoShape).exc = "none"
           /\ get_datatarget_group(adapter', last'.args[1], NoShape).ret.data
                 = flatten(last'.args[2])
           /\ Len(adapter'.datatarget_values) = Len(adapter.datatarget_values)
           /\ \A i \in DOMAIN adapter.datatarget_values :
                 (i - 1) \notin SliceIndices(adapter.datatarget_groups[last'.args[1]])
                    => adapter'.datatarget_values[i] = adapter.datatarget_values[i])
      ]_ncalls

\* a 2 x 3 array has been written to DefaultArray's group "action" after a
\* write to its scalar target
C10_Witness ==
    /\ adapter.kind = "DefaultArray"
    /\ last.op = "add_to_datatarget_group" /\ last.exc = "none"
    /\ last.args[2].shape = <<2, 3>>
    /\ adapter.datatarget_values = <<1>> \o last.args[2].data

\* the group dictionary and the buffer a group writer works on
WriterGroups(ad, op) ==
    IF op = "set_datasource_group" THEN ad.datasource_groups ELSE ad.datatarget_groups

IsGroupWriter(call) ==
    call.op \in {"set_datasource_group", "add_to_datatarget_group",
                 "set_datatarget_feedback_group"}

\* the call writes to a registered group an array whose number of elements
\* is not the size of the range of the group
MismatchedGroupWrite(ad, call) ==
    /\ IsGroupWriter(call)
    /\ call.args[1] \in DOMAIN WriterGroups(ad, call.op)
    /\ LET slce == WriterGroups(ad, call.op)[call.args[1]]
       IN  Size(call.args[2]) # slce.stop - slce.start

\* C11: set_datasource_group, add_to_datatarget_group and
\* set_datatarget_feedback_group raise whenever the input has not as many
\* elements as the range of the group (an input of one element for a larger
\* group too), and leave the object as it was.
C11_MismatchedGroupWriteFails ==
    [][MismatchedGroupWrite(adapter, last') =>
          (last'.exc # "none" /\ adapter' = adapter)]_ncalls

IsBulkSetter(call) ==
    call.op \in {"set_datasource_values", "set_datatarget_values",
                 "add_datatarget_values", "set_datatarget_feedback_values"}

\* the buffer a whole-buffer setter writes
BulkBuffer(ad, op) ==
    IF op = "set_datasource_values" THEN ad.datasource_values
    ELSE IF op = "set_datatarget_feedback_values" THEN ad.datatarget_feedback_values
    ELSE TargetVals(ad)

\* C12: a whole-buffer setter given a sequence that is not as long as the
\* buffer raises and leaves the object as it was; given one as long as the
\* buffer it returns, and the buffer is as long as before.
C12_BulkSetterChecksLength ==
    [][IsBulkSetter(last') =>
          IF Len(last'.args[1]) # Len(BulkBuffer(adapter, last'.op))
          THEN last'.exc # "none" /\ adapter' = adapter
          ELSE /\ last'.exc = "none"
               /\ Len(BulkBuffer(adapter', last'.op))
                     = Len(BulkBuffer(adapter, last'.op))]_ncalls

IsScalarAccess(call) ==
    call.op \in {"get_datasource_value", "get_datatarget_value",
                 "get_datatarget_feedback_value", "set_datatarget_value",
                 "add_to_datatarget", "set_datatarget_feedback_value"}

\* the names registered in the role a scalar read or write is for; the
\* feedback is of the targets
AccessNames(ad, op) ==
    IF op = "get_datasource_value"
    THEN SeqRange(Dispatch_get_available_datasources(ad))
    ELSE SeqRange(Dispatch_get_available_datatargets(ad))

\* C13: a scalar read (get_datasource_value, get_datatarget_value,
\* get_datatarget_feedback_value) or write (set_datatarget_value,
\* add_to_datatarget, set_datatarget_feedback_value) by a name that is not
\* registered in its role raises, and leaves the object as it was.
C13_UnknownNameFails ==
    [][(IsScalarAccess(last') /\ last'.args[1] \notin AccessNames(adapter, last'.op))
          => (last'.exc # "none" /\ adapter' = adapter)]_ncalls

\* the registry structure of an adapter: the available names of the two
\* roles in their order, and the ranges of the groups
Registry(ad) ==
    [sources |-> Dispatch_get_available_datasources(ad),
     targets |-> Dispatch_get_available_datatargets(ad),
     source_groups |-> ad.datasource_groups,
     target_groups |-> ad.datatarget_groups]

\* a tick, or a read or write of values by the agent
IsTickOrAccess(call) ==
    \/ call.op \in {"update", "reset_datatargets"}
    \/ IsScalarAccess(call)
    \/ IsGroupWriter(call)
    \/ IsBulkSetter(call)

\* C14: no tick, the first one included, and no read or write of values
\* changes the registry structure: the available source and target names,
\* their order and the ranges of the groups are after it what they were
\* before it.
C14_TicksKeepRegistry ==
    [][IsTickOrAccess(last') => Registry(adapter') = Registry(adapter)]_ncalls

\* the reads of state i .. i + L - 1 of the history v are one wrap of a
\* series of length L with shuffle on: one read per step, for the steps
\* k * L + 1 .. (k + 1) * L
IsWrap(v, i, L) ==
    /\ i + L - 1 <= Len(v)
    /\ v[i].step >= 1
    /\ (v[i].step - 1) % L = 0
    /\ \A j \in 0..(L - 1) : v[i + j].shuffle /\ v[i + j].step = v[i].step + j

\* C15: with shuffle on, the L consecutive reads of state for the steps
\* k * L + 1 .. (k + 1) * L take their columns from L time indices that are
\* together 0 .. L - 1, each index once; the first read of the wrap draws
\* the permutation, the other L - 1 neither draw one nor change it.
C15_WrapVisitsEachIndexOnce ==
    world.exc = "none" =>
        LET v == played.visits
            L == world.len_ts
        IN  \A i \in 1..Len(v) :
                IsWrap(v, i, L) =>
                    /\ {v[i + j].index : j \in 0..(L - 1)} = 0..(L - 1)
                    /\ v[i].drew
                    /\ \A j \in 1..(L - 1) :
                           /\ ~v[i + j].drew
                           /\ v[i + j].permutation = v[i].permutation

\* a wrap other than the first one has been played in an order that is not
\* the order of the columns
C15_Witness ==
    /\ world.exc = "none"
    /\ \E i \in 1..Len(played.visits) :
           /\ IsWrap(played.visits, i, world.len_ts)
           /\ played.visits[i].step > world.len_ts
           /\ \E t \in 1..world.len_ts :
                  played.visits[i].permutation[t] # t - 1

\* every read of state made with shuffle off returned the column
\* (step - 1) mod L of the normalized data of the file, drew no permutation
\* and left the permutation as the read before it had left it; two of them
\* for the same step returned the same vector; the series is still the
\* normalized data of the file
PlainReadsDetermined ==
    world.exc = "none" =>
        LET v == played.visits
            L == world.len_ts
            plain == {i \in 1..Len(v) : ~v[i].shuffle}
        IN  /\ world.timeseries = Normalized(played.file.data)
            /\ \A i \in plain :
                   /\ v[i].exc = "none"
                   /\ v[i].index = (v[i].step - 1) % L
                   /\ v[i].ret = Column(Normalized(played.file.data),
                                        (v[i].step - 1) % L)
                   /\ ~v[i].drew
                   /\ v[i].permutation =
                          IF i = 1 THEN Unset ELSE v[i - 1].permutation
            /\ \A i, j \in plain : v[i].step = v[j].step => v[i].ret = v[j].ret

\* a read of state with shuffle off changes nothing of the world but the
\* step its caller counts (Step) or sets (Advance)
PlainReadKeepsWorld ==
    /\ (last'.op = "state" /\ ~world.shuffle) =>
            world' = [world EXCEPT !.current_step = last'.args[1]]
    /\ (last'.op = "update" /\ ~world.shuffle) =>
            world' = [world EXCEPT !.current_step = @ + 1]

\* C16: with shuffle off, a read of state is a function of the step and the
\* loaded data alone: it returns column (step - 1) mod L of the normalized
\* matrix, two reads for the same step return the same vector whatever was
\* called between them, and no read changes the data or the playback state.
C16_PlainReadIsPure ==
    []PlainReadsDetermined /\ [][PlainReadKeepsWorld]_ncalls

\* the same step was read twice with shuffle off, and another step between
\* the two
C16_Witness ==
    /\ world.exc = "none"
    /\ \E i, j, k \in 1..Len(played.visits) :
           /\ i < k /\ k < j
           /\ ~played.visits[i].shuffle /\ ~played.visits[j].shuffle
           /\ played.visits[i].step = played.visits[j].step
           /\ played.visits[k].step # played.visits[i].step

\* the archive lacks a field, or has not one id for each row of data
Malformed(f) == f.fields # AllFields \/ Len(f.ids) # Len(f.data)

\* C17: the load of an archive that lacks one of the fields data, ids,
\* startdate, enddate, or whose number of ids differs from the number of
\* rows of data, fails; no world is played and no adapter runs on such an
\* archive.
C17_MalformedArchiveFailsToLoad ==
    Malformed(played.file) =>
        /\ world.exc # "none"
        /\ adapter = NoAdapter
        /\ played.visits = <<>>

\* a row with defined entries whose standard deviation is 0
IsConstantRow(row) == ~AllNaN(row) /\ NanVarScaled(row) = 0

\* C18: a row of the loaded data that has defined entries and standard
\* deviation 0 is left as it was by the z-transform: the load raises no
\* error, the row of the series is not undefined, and its entries are the
\* sigmoid of the original values; the rows of the series that are wholly
\* undefined are those that were so in the file.
C18_ConstantRowLeftUntouched ==
    played.file.fields = AllFields =>
        /\ world.exc = "none"
        /\ \A i \in DOMAIN played.file.data :
               LET row == played.file.data[i]
               IN  /\ AllNaN(world.timeseries[i]) <=> AllNaN(row)
                   /\ IsConstantRow(row) =>
                          \A t \in Defined(row) :
                              world.timeseries[i][t] = [sigm |-> row[t]]

\* the sources the hook in flight leaves when it is done, or when it raises
HookDone ==
    RunnerLooped(hook.before, world.ids, hook.state,
                 Min(Len(world.ids), Len(hook.state)))

\* C19: a read of all source values made by the agent while the world's
\* thread is inside update_data_sources_and_targets returns the values of
\* before that call or those of after it, never some of each.
C19_ReaderSeesWholeUpdate ==
    (last.op = "get_datasource_values" /\ hook # NoHook) =>
        last.ret \in {SourceVals(hook.before), SourceVals(HookDone)}

\* the scalar registrations of one role, entries, with its names: the name
\* of each resolves to the index its registration returned, that index
\* holds its name, and a later registration returned a larger index
IndicesStable(entries, names) ==
    LET scalars == {i \in DOMAIN entries : entries[i].op = "scalar"}
    IN  \A i \in scalars :
            /\ ListIndex(names, entries[i].name) = entries[i].ret
            /\ entries[i].ret < Len(names)
            /\ names[entries[i].ret + 1] = entries[i].name
            /\ \A j \in scalars : i < j => entries[i].ret < entries[j].ret

\* C20: in an array adapter, the index add_datasource / add_datatarget
\* returned for a name is the index get_datasource_index /
\* get_datatarget_index resolves the name to, right after the registration
\* and after all later ones; the scalar read by the name reads the buffer at
\* that index; the indices returned increase and the name at an index
\* returned is never another one.
C20_ReturnedIndexIsStable ==
    IsArray(adapter) =>
        /\ IndicesStable(log.sources, adapter.datasource_names)
        /\ IndicesStable(log.targets, adapter.datatarget_names)
        /\ \A i \in DOMAIN log.sources :
               log.sources[i].op = "scalar" =>
                   get_datasource_value(adapter, log.sources[i].name)
                       = ReadAt(adapter, adapter.datasource_values,
                                log.sources[i].ret)
        /\ \A i \in DOMAIN log.targets :
               log.targets[i].op = "scalar" =>
                   get_datatarget_value(adapter, log.targets[i].name)
                       = ReadAt(adapter, adapter.datatarget_values,
                                log.targets[i].ret)

\* C21: with shuffle on, every read of state returns, whatever the step of
\* the first read and the order of the reads: when permutation[t] is
\* indexed, the world has a permutation of 0 .. L - 1.
C21_ShuffledReadFindsPermutation ==
    world.exc = "none" =>
        \A i \in DOMAIN played.visits :
            played.visits[i].shuffle =>
                /\ played.visits[i].exc = "none"
                /\ played.visits[i].permutation
                       \in RandomPermutations(world.len_ts)

\* C22: the construction of an adapter and the tick of an adapter leave
\* every other adapter of the process as it was: its configuration, its
\* attributes, the supported sources of its class, its registries and its
\* buffers; also when adapters are constructed without a configuration.
C22_OtherAdaptersUntouched ==
    [][\A j \in DOMAIN shared.instances :
           last'.args # <<j>> =>
               InstanceView(shared', j) = InstanceView(shared, j)]_ncalls

\* the name of member k of the group g registered with this shape
MemberName(g, shape, k) == JoinName(g, unravel_index(k, shape))

\* for every group of one role, registered with shape s at range start b,
\* the name at index b + k is the member name of k
MembersNamed(groups, names, entries) ==
    \A g \in DOMAIN groups :
        LET s == GroupShape(entries, g)
        IN  \A k \in 0..(Product(s) - 1) :
                /\ groups[g].start + k < Len(names)
                /\ names[groups[g].start + k + 1] = MemberName(g, s, k)

\* ... and the member name of k resolves to the index b + k
MembersResolve(groups, names, entries) ==
    \A g \in DOMAIN groups :
        LET s == GroupShape(entries, g)
        IN  \A k \in 0..(Product(s) - 1) :
                ListIndex(names, MemberName(g, s, k)) = groups[g].start + k

\* C23: for a group registered with name g and shape s at range start b,
\* the name at index b + k, 0 <= k < product(s), is g followed by the
\* row-major multi-index of k within s, and that name resolves to the index
\* b + k: the scalar access by member name and the group access by slice
\* address the same slot.
C23_MemberNamesAddressGroupSlots ==
    IsArray(adapter) =>
        /\ MembersNamed(adapter.datasource_groups, adapter.datasource_names,
                        log.sources)
        /\ MembersNamed(adapter.datatarget_groups, adapter.datatarget_names,
                        log.targets)
        /\ MembersResolve(adapter.datasource_groups, adapter.datasource_names,
                          log.sources)
        /\ MembersResolve(adapter.datatarget_groups, adapter.datatarget_names,
                          log.targets)

====
